---- MODULE Spec2Model ----
(***************************************************************************)
(* Model of the fragment search pipeline of                                *)
(* deprecated_code/test_target_population_comparison_from_index_csv_1.py:  *)
(*   process_target                    (extraction + greedy deduplication) *)
(*   load_population_subset_from_index (two-pass indexed loader)           *)
(*   compare_group / compare_fragments_parallel (matching + aggregation)   *)
(*                                                                         *)
(* Conventions.                                                            *)
(*  - Scores and distances are fixed-point integers in thousandths:        *)
(*    1.0 is 1000, the two-atom tolerance 0.01 is 10, 1.505 A is 1505.     *)
(*  - A Python dict is a sequence of <<key, value>> pairs with distinct    *)
(*    keys, in insertion order.                                            *)
(*  - A fingerprint is an opaque value (a small integer); the similarity   *)
(*    oracle sim is an arbitrary function on pairs of fingerprints.        *)
(*  - A serialized structure (sdf) is a record: its identity and the       *)
(*    distance between its first two atoms (NoDist if it cannot be parsed).*)
(*  - A raised, uncaught exception ends the run in pc = "raised".          *)
(***************************************************************************)
EXTENDS Integers, Sequences, FiniteSets, TLC

VARIABLES
    pc,                 \* position of the running function
    error,              \* name of the uncaught exception, or "none"
    sim,                \* the similarity oracle: [Fps \X Fps -> score]
    \* ---- compare_fragments_parallel
    target_frags,       \* dict formula -> list of target fragments
    pop_fragments_gen,  \* list of population dicts formula -> list of fragments
    tasks,              \* list of <<target_group, pop_list, threshold>>
    pending,            \* indices of the tasks whose batch is not yet yielded
    batch,              \* the batch last yielded by imap_unordered
    yielded,            \* index of the task that produced batch (0: none yet)
    all_results,        \* fingerprint key -> [target_sdf, top_matches, matched]
    \* ---- process_target
    molecule,           \* the entry's molecule: its list of components
    mol,                \* <<component>> chosen by component_of_interest, <<>> for None
    fragments,          \* get_fragments(mol): one fragment per atom
    grouped,            \* dict formula -> list of fragment data
    unique_by_formula,  \* dict formula -> list of kept fragment data
    \* ---- load_population_subset_from_index
    pop_ids,            \* wanted entry ids: the raw list, then the normalized set
    formulas,           \* wanted formula signatures, as passed
    normalized_formulas,\* the set built from formulas
    index,              \* rows of fragment_index.csv
    dataset,            \* rows of the population csv
    rows_by_chunk,      \* dict chunk_id -> list of row_in_chunk
    chunk_id,           \* number of the chunk the second pass is at
    pop_group           \* dict formula -> list of fragments

matcher_vars == <<target_frags, pop_fragments_gen, tasks, pending, batch, yielded, all_results>>
target_vars == <<molecule, mol, fragments, grouped, unique_by_formula>>
loader_vars == <<pop_ids, formulas, normalized_formulas, index, dataset,
                 rows_by_chunk, chunk_id, pop_group>>
vars == <<pc, error, sim, matcher_vars, target_vars, loader_vars>>

-----------------------------------------------------------------------------
(* Program constants (fixed point, thousandths)                            *)

One == 1000
MatchThreshold == 990
DedupThreshold == 999
DistTol == 10
TopK == 3
TwoAtoms == 2
MinAtoms == 5

(* Bounds of the model                                                     *)
NumFps == 3
MaxChunks == 3
NumShapes == 2
MaxComponents == 2
ChunkSize == 2
NumRows == 6
MaxIndex == 3

NoDist == -1
Fps == 1..NumFps

-----------------------------------------------------------------------------
(* Helpers                                                                 *)

Min(a, b) == IF a < b THEN a ELSE b
Abs(x) == IF x < 0 THEN -x ELSE x
Range(s) == {s[i] : i \in 1..Len(s)}

\* dict helpers: d is a sequence of <<key, value>> pairs
Keys(d) == {d[i][1] : i \in 1..Len(d)}
Get(d, k) == d[CHOOSE i \in 1..Len(d) : d[i][1] = k][2]

\* d[key].append(val) on a defaultdict(list)
DictAppend(d, key, val) ==
    IF key \in Keys(d)
    THEN [i \in 1..Len(d) |-> IF d[i][1] = key THEN <<d[i][1], Append(d[i][2], val)>> ELSE d[i]]
    ELSE Append(d, <<key, <<val>> >>)

\* all sequences over S of length at most n
SeqsUpTo(S, n) == UNION {[1..k -> S] : k \in 0..n}

-----------------------------------------------------------------------------
(* Formula signatures (central element, atom count, formula string)        *)

SigG == <<"C", 5, "C1H4">>
SigB == <<"H", 2, "C1H1">>
SigX == <<"Cl", 2, "C1Cl1">>

Sdf(i, d) == [id |-> i, dist |-> d]
Frag(f, s, sig) == [fp |-> f, sdf |-> s, formula |-> sig, n_atoms |-> sig[2]]

-----------------------------------------------------------------------------
(* compare_group                                                           *)

fingerprint_key(fp_obj) == fp_obj

Parses(sdf) == sdf.dist # NoDist
interatomic_distance(sdf) == sdf.dist

\* list.sort(key=lambda x: -x[0]): a stable sort, descending by score
RECURSIVE InsertDesc(_, _)
InsertDesc(s, m) ==
    IF s = <<>> THEN <<m>>
    ELSE IF Head(s)[1] >= m[1] THEN <<Head(s)>> \o InsertDesc(Tail(s), m)
    ELSE <<m>> \o s

RECURSIVE SortDesc(_)
SortDesc(s) ==
    IF s = <<>> THEN <<>>
    ELSE InsertDesc(SortDesc(SubSeq(s, 1, Len(s) - 1)), s[Len(s)])

TruncateNone(s) == s

\* top_matches[:3]
Truncate(s) == SubSeq(s, 1, Min(TopK, Len(s)))

TwoAtomDiffSigned(t_dist, p_dist) == t_dist - p_dist

\* diff = abs(t_dist - p_dist)
TwoAtomDiff(t_dist, p_dist) == Abs(t_dist - p_dist)

\* One (target, candidate) comparison: the list of matches it appends
\* (empty or a single <<score, pop_sdf>>).
Evaluate(t, pop, threshold) ==
    LET is_both_biatomic == t.n_atoms = TwoAtoms /\ pop.n_atoms = TwoAtoms
    IN  IF is_both_biatomic /\ t.formula = pop.formula
        THEN IF Parses(t.sdf) /\ Parses(pop.sdf)
             THEN LET diff == TwoAtomDiff(interatomic_distance(t.sdf),
                                          interatomic_distance(pop.sdf))
                  IN  IF diff <= DistTol THEN << <<One - diff, pop.sdf>> >> ELSE <<>>
             ELSE <<>>                          \* except: continue
        ELSE IF ~is_both_biatomic
        THEN LET score == sim[<<t.fp, pop.fp>>]
             IN  IF score >= threshold THEN << <<score, pop.sdf>> >> ELSE <<>>
        ELSE <<>>

\* The state of the scan: st.status is the dict target_status (pairs
\* <<key, [data, top_matches, matched]>>), st.unmatched the set unmatched_keys.

\* lines 317-340 for one key: the entry of target_status after the candidate
ScanKey(info, pop, threshold) ==
    [data |-> info.data,
     top_matches |-> Truncate(SortDesc(info.top_matches \o Evaluate(info.data, pop, threshold))),
     matched |-> info.matched \/ Evaluate(info.data, pop, threshold) # <<>>]

RECURSIVE ScanKeys(_, _, _, _)
ScanKeys(status, unmatched, pop, threshold) ==
    IF status = <<>> THEN <<>>
    ELSE << IF Head(status)[1] \in unmatched
            THEN <<Head(status)[1], ScanKey(Head(status)[2], pop, threshold)>>
            ELSE Head(status) >> \o ScanKeys(Tail(status), unmatched, pop, threshold)

\* a scan that never takes a matched key out of unmatched_keys
ScanCandidateKeepAll(st, pop, threshold) ==
    [status |-> ScanKeys(st.status, st.unmatched, pop, threshold),
     unmatched |-> st.unmatched]

\* the body of "for pop in pop_group", up to "unmatched_keys -= set(to_remove)"
ScanCandidate(st, pop, threshold) ==
    LET to_remove == {k \in st.unmatched :
                         Evaluate(Get(st.status, k).data, pop, threshold) # <<>>}
    IN  [status |-> ScanKeys(st.status, st.unmatched, pop, threshold),
         unmatched |-> st.unmatched \ to_remove]

\* "for pop in pop_group: ...; if not unmatched_keys: break"
RECURSIVE ScanPopulation(_, _, _)
ScanPopulation(st, pop_list, threshold) ==
    IF pop_list = <<>> THEN st
    ELSE LET st2 == ScanCandidate(st, Head(pop_list), threshold)
         IN  IF st2.unmatched = {} THEN st2
             ELSE ScanPopulation(st2, Tail(pop_list), threshold)

\* the dict comprehension of lines 299-305: a key keeps the place of its first
\* fragment and the data of its last
RECURSIVE InitialStatus(_)
InitialStatus(target_group) ==
    IF target_group = <<>> THEN <<>>
    ELSE LET before == InitialStatus(SubSeq(target_group, 1, Len(target_group) - 1))
             t == target_group[Len(target_group)]
             info == [data |-> t, top_matches |-> <<>>, matched |-> FALSE]
         IN  IF fingerprint_key(t.fp) \in Keys(before)
             THEN [i \in 1..Len(before) |->
                      IF before[i][1] = fingerprint_key(t.fp)
                      THEN <<before[i][1], info>> ELSE before[i]]
             ELSE Append(before, <<fingerprint_key(t.fp), info>>)

\* lines 346-352
RECURSIVE ResultList(_)
ResultList(status) ==
    IF status = <<>> THEN <<>>
    ELSE << <<Head(status)[1], [target_sdf |-> Head(status)[2].data.sdf,
                                top_matches |-> Head(status)[2].top_matches,
                                matched |-> Head(status)[2].matched]>> >>
         \o ResultList(Tail(status))

compare_group(args) ==
    ResultList(ScanPopulation([status |-> InitialStatus(args[1]),
                               unmatched |-> Keys(InitialStatus(args[1]))],
                              args[2], args[3]).status)

\* the fragment of target_group that compare_group keeps under key k
LastWithKey(target_group, k) == Get(InitialStatus(target_group), k).data

-----------------------------------------------------------------------------
(* compare_fragments_parallel                                              *)

\* a task for every target group, whether or not the population dict has its key
TasksOfGroupAll(tf, items, threshold) ==
    [i \in 1..Len(tf) |->
        <<tf[i][2], IF tf[i][1] \in Keys(items) THEN Get(items, tf[i][1]) ELSE <<>>, threshold>>]

\* tasks of one population dict: one per key that is also a target key
RECURSIVE TasksOfGroup(_, _, _)
TasksOfGroup(tf, items, threshold) ==
    IF items = <<>> THEN <<>>
    ELSE LET key == Head(items)[1]
             pop_list == Head(items)[2]
             rest == TasksOfGroup(tf, Tail(items), threshold)
         IN  IF key \in Keys(tf) THEN << <<Get(tf, key), pop_list, threshold>> >> \o rest
             ELSE rest

RECURSIVE BuildTasks(_, _, _)
BuildTasks(tf, gen, threshold) ==
    IF gen = <<>> THEN <<>>
    ELSE TasksOfGroup(tf, Head(gen), threshold) \o BuildTasks(tf, Tail(gen), threshold)

\* all_results[key] of the defaultdict
Entry(res, key) ==
    IF key \in DOMAIN res THEN res[key]
    ELSE [target_sdf |-> Sdf(0, NoDist), top_matches |-> <<>>, matched |-> FALSE]

\* the body of "for key, result in batch"
MergeOne(res, key, result) ==
    LET old == Entry(res, key)
        new == [target_sdf |-> result.target_sdf,
                top_matches |-> Truncate(SortDesc(old.top_matches \o result.top_matches)),
                matched |-> old.matched \/ result.matched]
    IN  [k \in DOMAIN res \cup {key} |-> IF k = key THEN new ELSE res[k]]

RECURSIVE MergeBatch(_, _)
MergeBatch(res, b) ==
    IF b = <<>> THEN res
    ELSE MergeBatch(MergeOne(res, Head(b)[1], Head(b)[2]), Tail(b))

EmptyResults == [k \in {} |-> 0]

-----------------------------------------------------------------------------
(* process_target: component_of_interest, get_fragments, deduplication     *)

\* An atom is modelled by its atomic weight and by the formula signature of
\* the fragment create_fragment builds around it (the atom and its neighbours).
Atom(w, sig) == [atomic_weight |-> w, formula |-> sig]
Component(org, atoms) == [is_organometallic |-> org, atoms |-> atoms]

RECURSIVE SumWeights(_)
SumWeights(atoms) ==
    IF atoms = <<>> THEN 0 ELSE Head(atoms).atomic_weight + SumWeights(Tail(atoms))

\* max(props, key=...): the first component with the largest value
FirstMax(vals) ==
    CHOOSE i \in 1..Len(vals) :
        /\ \A j \in 1..Len(vals) : vals[j] <= vals[i]
        /\ \A j \in 1..(i - 1) : vals[j] < vals[i]

BoolToInt(b) == IF b THEN 1 ELSE 0

\* the index of the component returned, 0 for None
component_of_interest(components) ==
    IF components = <<>> THEN 0
    ELSE LET mw == [i \in 1..Len(components) |-> SumWeights(components[i].atoms)]
             atom_count == [i \in 1..Len(components) |-> Len(components[i].atoms)]
             heaviest == FirstMax(mw)
             most_atoms == FirstMax(atom_count)
             ok(i) == /\ BoolToInt(components[i].is_organometallic)
                          + BoolToInt(i = heaviest) + BoolToInt(i = most_atoms) >= 2
                      /\ atom_count[i] >= MinAtoms
         IN  IF \E i \in 1..Len(components) : ok(i)
             THEN CHOOSE i \in 1..Len(components) :
                      ok(i) /\ \A j \in 1..(i - 1) : ~ok(j)
             ELSE 0

\* [create_fragment(atom) for atom in mol.atoms]
get_fragments(component) ==
    [i \in 1..Len(component.atoms) |-> [atom |-> i, formula |-> component.atoms[i].formula]]

\* generate_fp_data(frag), the fingerprint being fp
generate_fp_data(frag, fp) == Frag(fp, Sdf(frag.atom, 1090), frag.formula)

\* grouped[data["formula"]].append(data), over the list of data
RECURSIVE GroupByFormula(_)
GroupByFormula(datas) ==
    IF datas = <<>> THEN <<>>
    ELSE LET d == datas[Len(datas)]
         IN  DictAppend(GroupByFormula(SubSeq(datas, 1, Len(datas) - 1)), d.formula, d)

KeepTestReversed(frag, kept, threshold) ==
    \A i \in 1..Len(kept) : sim[<<kept[i].fp, frag.fp>>] < threshold

\* all(sim.compute_similarity_score(frag["fp"], other["fp"]) < threshold
\*     for other in unique_by_formula[formula])
KeepTest(frag, kept, threshold) ==
    \A i \in 1..Len(kept) : sim[<<frag.fp, kept[i].fp>>] < threshold

\* a deduplication that compares each fragment with its predecessor only
DedupGroupAdjacent(frags, threshold) ==
    LET keep == {i \in 1..Len(frags) :
                    i = 1 \/ sim[<<frags[i].fp, frags[i - 1].fp>>] < threshold}
        RECURSIVE Pick(_)
        Pick(n) == IF n = 0 THEN <<>>
                   ELSE IF n \in keep THEN Append(Pick(n - 1), frags[n]) ELSE Pick(n - 1)
    IN  Pick(Len(frags))

\* the inner loop of lines 106-108 over one group
RECURSIVE DedupGroup(_, _)
DedupGroup(frags, threshold) ==
    IF frags = <<>> THEN <<>>
    ELSE LET kept == DedupGroup(SubSeq(frags, 1, Len(frags) - 1), threshold)
             frag == frags[Len(frags)]
         IN  IF KeepTest(frag, kept, threshold) THEN Append(kept, frag) ELSE kept

\* lines 104-108 over the whole dict
Deduplicated(g, threshold) ==
    [i \in 1..Len(g) |-> <<g[i][1], DedupGroup(g[i][2], threshold)>>]

\* Inputs
SigFe == <<"Fe", 4, "Cl3Fe1">>
SigCl == <<"Cl", 2, "Cl1Fe1">>
SigBH == <<"B", 4, "B1H3">>
SigHB == <<"H", 2, "B1H1">>

Methane(org) == Component(org, <<Atom(12, SigG), Atom(1, SigB), Atom(1, SigB),
                                  Atom(1, SigB), Atom(1, SigB)>>)
IronChloride(org) == Component(org, <<Atom(56, SigFe), Atom(35, SigCl),
                                       Atom(35, SigCl), Atom(35, SigCl)>>)
Borane(org) == Component(org, <<Atom(11, SigBH), Atom(1, SigHB),
                                 Atom(1, SigHB), Atom(1, SigHB)>>)

ComponentMenu ==
    UNION {{Methane(org), IronChloride(org), Borane(org)} : org \in BOOLEAN}

ShapeFps == 1..NumShapes
DedupLevels == {DedupThreshold - 1, DedupThreshold}
DedupOracles == [ShapeFps \X ShapeFps -> DedupLevels]

LoaderIdle ==
    /\ pop_ids = <<>>
    /\ formulas = <<>>
    /\ normalized_formulas = {}
    /\ index = <<>>
    /\ dataset = <<>>
    /\ rows_by_chunk = <<>>
    /\ chunk_id = 0
    /\ pop_group = <<>>

TargetIdle ==
    /\ molecule = <<>>
    /\ mol = <<>>
    /\ fragments = <<>>
    /\ grouped = <<>>
    /\ unique_by_formula = <<>>

MatcherIdle ==
    /\ target_frags = <<>>
    /\ pop_fragments_gen = <<>>
    /\ tasks = <<>>
    /\ pending = {}
    /\ batch = <<>>
    /\ yielded = 0
    /\ all_results = EmptyResults

InitTarget ==
    /\ pc = "target"
    /\ error = "none"
    /\ sim \in DedupOracles
    /\ molecule \in SeqsUpTo(ComponentMenu, MaxComponents)
    /\ mol = <<>>
    /\ fragments = <<>>
    /\ grouped = <<>>
    /\ unique_by_formula = <<>>
    /\ MatcherIdle
    /\ LoaderIdle

\* line 96: mol = component_of_interest(reader.entry(entry_id).molecule);
\* the molecule is a temporary, only mol is kept
SelectComponent ==
    /\ pc = "target"
    /\ LET c == component_of_interest(molecule)
       IN  mol' = IF c = 0 THEN <<>> ELSE <<molecule[c]>>
    /\ molecule' = <<>>
    /\ pc' = "get_fragments"
    /\ UNCHANGED <<error, sim, matcher_vars, loader_vars, fragments, grouped, unique_by_formula>>

\* line 97 with mol = None: None has no attribute atoms
GetFragmentsOfNone ==
    /\ pc = "get_fragments"
    /\ mol = <<>>
    /\ error' = "AttributeError"
    /\ pc' = "raised"
    /\ UNCHANGED <<sim, matcher_vars, target_vars, loader_vars>>

\* line 97
GetFragments ==
    /\ pc = "get_fragments"
    /\ mol # <<>>
    /\ fragments' = get_fragments(mol[1])
    /\ pc' = "group"
    /\ UNCHANGED <<error, sim, matcher_vars, loader_vars, molecule, mol, grouped, unique_by_formula>>

\* lines 99-102; the fingerprint of each fragment is whatever its geometry gives
GroupFragments ==
    /\ pc = "group"
    /\ \E fps \in [1..Len(fragments) -> ShapeFps] :
           grouped' = GroupByFormula([i \in 1..Len(fragments) |->
                                         generate_fp_data(fragments[i], fps[i])])
    /\ pc' = "dedup"
    /\ UNCHANGED <<error, sim, matcher_vars, loader_vars, molecule, mol, fragments, unique_by_formula>>

\* lines 104-110
Deduplicate ==
    /\ pc = "dedup"
    /\ unique_by_formula' = Deduplicated(grouped, DedupThreshold)
    /\ pc' = "target_done"
    /\ UNCHANGED <<error, sim, matcher_vars, loader_vars, molecule, mol, fragments, grouped>>

NextTarget ==
    \/ SelectComponent
    \/ GetFragmentsOfNone
    \/ GetFragments
    \/ GroupFragments
    \/ Deduplicate

SpecTarget == InitTarget /\ [][NextTarget]_vars


-----------------------------------------------------------------------------
(* Inputs of the matcher                                                   *)

t1  == Frag(1, Sdf(1, 1090), SigG)
tb1 == Frag(2, Sdf(2, 1500), SigB)
tb2 == Frag(3, Sdf(3, 1520), SigB)
tb1c == Frag(1, Sdf(2, 1500), SigB)     \* same fingerprint key as t1

pg1 == Frag(1, Sdf(11, 1090), SigG)
pg2 == Frag(2, Sdf(12, 1100), SigG)
pbA == Frag(2, Sdf(13, 1505), SigB)
pbB == Frag(3, Sdf(14, 1512), SigB)
pbC == Frag(1, Sdf(15, 1510), SigB)
pbD == Frag(3, Sdf(16, 1495), SigB)
pbBad == Frag(2, Sdf(17, NoDist), SigB)
px == Frag(3, Sdf(18, 1700), SigX)

TargetMenu ==
    { <<>>,
      << <<SigG, <<t1>> >>, <<SigB, <<tb1, tb2>> >> >>,
      << <<SigG, <<t1>> >>, <<SigB, <<tb1c, tb2>> >> >> }

PopGroupMenu ==
    { << <<SigG, <<pg1, pg2>> >>, <<SigB, <<pbA>> >> >>,
      << <<SigB, <<pbD, pbB>> >> >>,
      << <<SigB, <<pbBad, pbC, pbA>> >>, <<SigX, <<px>> >> >> }

MatchLevels == {985, 990, 1000}

\* the oracles of the matcher runs: t1 is the only target scored by the oracle;
\* the entries no run consults are held at the lowest level
MatcherOracles ==
    {[p \in Fps \X Fps |-> IF p = <<1, 1>> THEN a ELSE IF p = <<1, 2>> THEN b ELSE 985] :
        a \in MatchLevels, b \in MatchLevels}

InitMatcher ==
    /\ pc = "prepare"
    /\ error = "none"
    /\ sim \in MatcherOracles
    /\ target_frags \in TargetMenu
    /\ pop_fragments_gen \in SeqsUpTo(PopGroupMenu, MaxChunks)
    /\ tasks = <<>>
    /\ pending = {}
    /\ batch = <<>>
    /\ yielded = 0
    /\ all_results = EmptyResults
    /\ TargetIdle
    /\ LoaderIdle

\* lines 366-386: the task list is built before the pool starts
PrepareTasks ==
    /\ pc = "prepare"
    /\ tasks' = BuildTasks(target_frags, pop_fragments_gen, MatchThreshold)
    /\ pending' = 1..Len(tasks')
    /\ pc' = "pool"
    /\ UNCHANGED <<error, sim, target_frags, pop_fragments_gen, batch, yielded, all_results, target_vars, loader_vars>>

\* one iteration of "for batch in pool.imap_unordered(compare_group, tasks)":
\* the batch of any task not yet yielded arrives and is merged
YieldBatch(i) ==
    /\ pc = "pool"
    /\ i \in pending
    /\ batch' = compare_group(tasks[i])
    /\ yielded' = i
    /\ all_results' = MergeBatch(all_results, batch')
    /\ pending' = pending \ {i}
    /\ UNCHANGED <<pc, error, sim, target_frags, pop_fragments_gen, tasks, target_vars, loader_vars>>

\* return dict(all_results)
ReturnResults ==
    /\ pc = "pool"
    /\ pending = {}
    /\ pc' = "returned"
    /\ UNCHANGED <<error, sim, matcher_vars, target_vars, loader_vars>>

NextMatcher ==
    \/ PrepareTasks
    \/ \E i \in pending : YieldBatch(i)
    \/ ReturnResults

SpecMatcher == InitMatcher /\ [][NextMatcher]_vars

-----------------------------------------------------------------------------
(* load_population_subset_from_index                                       *)

\* An entry id as written in a file: its letters (name), whether they are in
\* lower case, and whether white space surrounds them.
RawId(name, lower, padded) == [name |-> name, lower |-> lower, padded |-> padded]

\* pid.strip().upper()
NormalizeId(id) == RawId(id.name, FALSE, FALSE)

\* The text of a formula column: ast.literal_eval succeeds with a 3-tuple
\* (parses) or raises.
FormulaText(sig) == [parses |-> TRUE, value |-> sig]
BadText == [parses |-> FALSE, value |-> <<"", 0, "">>]

IndexRow(c, r, id, text) == [chunk_id |-> c, row_in_chunk |-> r, entry_id |-> id, formula |-> text]

\* line 174, with the row's try block: a row that fails to parse is skipped
IndexRowSelected(row, ids, wanted) ==
    /\ row.formula.parses
    /\ NormalizeId(row.entry_id) \in ids
    /\ row.formula.value \in wanted

\* pass 1, lines 159-180
RECURSIVE ScanIndex(_, _, _)
ScanIndex(rows, ids, wanted) ==
    IF rows = <<>> THEN <<>>
    ELSE LET before == ScanIndex(SubSeq(rows, 1, Len(rows) - 1), ids, wanted)
             row == rows[Len(rows)]
         IN  IF IndexRowSelected(row, ids, wanted)
             THEN DictAppend(before, row.chunk_id, row.row_in_chunk)
             ELSE before

\* pd.read_csv(csv_path, chunksize=chunk_size): chunk c holds the rows whose
\* label (the row's number in the whole file, from 0) is in Labels(data, c)
NumChunks(data) == (Len(data) + ChunkSize - 1) \div ChunkSize
Labels(data, c) == {l \in 0..(Len(data) - 1) : l \div ChunkSize = c}

\* a selection that drops the missing labels instead of raising
LocLenient(data, c, row_idxs) ==
    [raised |-> FALSE,
     rows |-> LET present == SelectSeq(row_idxs, LAMBDA l : l \in Labels(data, c))
              IN  [i \in 1..Len(present) |-> data[present[i] + 1]]]

\* chunk.loc[row_idxs]: KeyError if a label is not in the chunk
Loc(data, c, row_idxs) ==
    IF \A i \in 1..Len(row_idxs) : row_idxs[i] \in Labels(data, c)
    THEN [raised |-> FALSE, rows |-> [i \in 1..Len(row_idxs) |-> data[row_idxs[i] + 1]]]
    ELSE [raised |-> TRUE, rows |-> <<>>]

\* lines 209-228: rows that fail to parse are skipped
RECURSIVE AppendRows(_, _)
AppendRows(group, rows) ==
    IF rows = <<>> THEN group
    ELSE LET before == AppendRows(group, SubSeq(rows, 1, Len(rows) - 1))
             row == rows[Len(rows)]
         IN  IF row.formula.parses
             THEN DictAppend(before, row.formula.value,
                             [fp |-> row.fp, sdf |-> row.sdf,
                              n_atoms |-> row.n_atoms, formula |-> row.formula.value])
             ELSE before

\* Inputs
WantedRaw == RawId("ABAHIW", TRUE, TRUE)        \* " abahiw " in the population file
IndexedRaw == RawId("ABAHIW", FALSE, TRUE)      \* "ABAHIW " in the index
OtherRaw == RawId("XIDTOW", FALSE, FALSE)

\* the formula of the dataset row at label l
RowFormula(l) == IF l % 2 = 0 THEN SigG ELSE SigB

DataRow(l, text) ==
    [formula |-> text, fp |-> 1 + (l % NumFps), sdf |-> Sdf(l, 1500 + l),
     n_atoms |-> RowFormula(l)[2]]

\* a dataset of n rows, all well formed but the row at label bad (none if bad < 0)
Dataset(n, bad) ==
    [i \in 1..n |-> DataRow(i - 1, IF i - 1 = bad THEN BadText ELSE FormulaText(RowFormula(i - 1)))]

\* the places an index row can name: chunk c, offset r, in file order; offset
\* ChunkSize is past the end of any chunk
Places == [i \in 1..(((NumRows + ChunkSize - 1) \div ChunkSize) * (ChunkSize + 1)) |->
              <<(i - 1) \div (ChunkSize + 1), (i - 1) % (ChunkSize + 1)>>]

IndexKinds == {"wanted", "other", "malformed"}

IndexRowOf(place, kind) ==
    IndexRow(place[1], place[2],
             IF kind = "other" THEN OtherRaw ELSE IndexedRaw,
             IF kind = "malformed" THEN BadText
             ELSE FormulaText(RowFormula(place[1] * ChunkSize + place[2])))

\* the indexes: rows for at most MaxIndex places, in file order
Indexes ==
    {[i \in 1..Len(ps) |-> IndexRowOf(Places[ps[i]], ks[i])] :
        <<ps, ks>> \in UNION {
            {pk \in [1..n -> 1..Len(Places)] \X [1..n -> IndexKinds] :
                \A i \in 1..(n - 1) : pk[1][i] < pk[1][i + 1]} : n \in 0..MaxIndex}}

WantedMenu ==
    { << <<>>, <<SigG>> >>,
      << <<WantedRaw>>, <<>> >>,
      << <<WantedRaw>>, <<SigG>> >>,
      << <<WantedRaw>>, <<SigG, SigB>> >> }

InitLoader ==
    /\ pc = "load"
    /\ error = "none"
    /\ sim = [p \in Fps \X Fps |-> One]
    /\ \E w \in WantedMenu : pop_ids = w[1] /\ formulas = w[2]
    /\ normalized_formulas = {}
    /\ index \in Indexes
    /\ dataset \in {Dataset(NumRows, -1), Dataset(NumRows, 1)}
    /\ rows_by_chunk = <<>>
    /\ chunk_id = 0
    /\ pop_group = <<>>
    /\ MatcherIdle
    /\ TargetIdle

\* lines 146-147, then line 150 with a non-empty set of formulas
Normalize ==
    /\ pc = "load"
    /\ formulas # <<>>
    /\ pop_ids' = {NormalizeId(pop_ids[i]) : i \in 1..Len(pop_ids)}
    /\ normalized_formulas' = Range(formulas)
    /\ pc' = "pass1"
    /\ UNCHANGED <<error, sim, matcher_vars, target_vars, formulas, index, dataset,
                   rows_by_chunk, chunk_id, pop_group>>

\* lines 146-147, then line 150 with no formula: next() of an exhausted
\* iterator raises StopIteration
NormalizeRaisesStopIteration ==
    /\ pc = "load"
    /\ formulas = <<>>
    /\ pop_ids' = {NormalizeId(pop_ids[i]) : i \in 1..Len(pop_ids)}
    /\ normalized_formulas' = {}
    /\ error' = "StopIteration"
    /\ pc' = "raised"
    /\ UNCHANGED <<sim, matcher_vars, target_vars, formulas, index, dataset,
                   rows_by_chunk, chunk_id, pop_group>>

\* lines 155-185: the index scan; with no row selected, return {}
IndexScan ==
    /\ pc = "pass1"
    /\ rows_by_chunk' = ScanIndex(index, pop_ids, normalized_formulas)
    /\ pc' = IF rows_by_chunk' = <<>> THEN "loaded" ELSE "pass2"
    /\ UNCHANGED <<error, sim, matcher_vars, target_vars, pop_ids, formulas,
                   normalized_formulas, index, dataset, chunk_id, pop_group>>

\* one iteration of "for chunk_id, chunk in enumerate(reader)", lines 195-228
ChunkStep ==
    /\ pc = "pass2"
    /\ chunk_id < NumChunks(dataset)
    /\ pop_group' =
           IF chunk_id \notin Keys(rows_by_chunk) THEN pop_group
           ELSE LET subset == Loc(dataset, chunk_id, Get(rows_by_chunk, chunk_id))
                IN  IF subset.raised THEN pop_group
                    ELSE AppendRows(pop_group, subset.rows)
    /\ chunk_id' = chunk_id + 1
    /\ UNCHANGED <<pc, error, sim, matcher_vars, target_vars, pop_ids, formulas,
                   normalized_formulas, index, dataset, rows_by_chunk>>

\* line 230
LoaderReturn ==
    /\ pc = "pass2"
    /\ chunk_id = NumChunks(dataset)
    /\ pc' = "loaded"
    /\ UNCHANGED <<error, sim, matcher_vars, target_vars, loader_vars>>

NextLoader ==
    \/ Normalize
    \/ NormalizeRaisesStopIteration
    \/ IndexScan
    \/ ChunkStep
    \/ LoaderReturn

SpecLoader == InitLoader /\ [][NextLoader]_vars

-----------------------------------------------------------------------------
(* Properties of the matcher and the aggregator                            *)

\* the tasks whose batch has been yielded and merged
Yielded == (1..Len(tasks)) \ pending

Descending(s) == \A j \in 1..(Len(s) - 1) : s[j][1] >= s[j + 1][1]
StrictlyDescending(s) == \A j \in 1..(Len(s) - 1) : s[j][1] > s[j + 1][1]

\* every top_matches list produced so far: by compare_group, and by the merge
TopMatchLists ==
    {all_results[k].top_matches : k \in DOMAIN all_results}
        \cup {batch[j][2].top_matches : j \in 1..Len(batch)}

\* number of yielded batches that brought a match for key k
Contributions(k) ==
    Cardinality({i \in Yielded :
        \E j \in 1..Len(compare_group(tasks[i])) :
            /\ compare_group(tasks[i])[j][1] = k
            /\ compare_group(tasks[i])[j][2].matched})

\* C1 as stated: every top_matches list, after compare_group and after the
\* merge, has at most 3 entries and strictly descending scores.
C1_TopKStrictlyDescending ==
    \A s \in TopMatchLists : Len(s) <= TopK /\ StrictlyDescending(s)

\* C1 amended: every top_matches list, after compare_group and after the
\* merge, has at most 3 entries and scores in non-increasing order (equal
\* adjacent scores occur).
C1_TopKBound ==
    \A s \in TopMatchLists : Len(s) <= TopK /\ Descending(s)

\* more than 3 matches were merged under one key, and the run has returned
C1_Witness ==
    /\ pc = "returned"
    /\ \E k \in DOMAIN all_results :
           Contributions(k) > TopK /\ Len(all_results[k].top_matches) = TopK

\* the candidates of pop_group that the comparison rule accepts for target t
RECURSIVE Accepted(_, _, _)
Accepted(t, pop_list, threshold) ==
    IF pop_list = <<>> THEN <<>>
    ELSE Evaluate(t, Head(pop_list), threshold) \o Accepted(t, Tail(pop_list), threshold)

Scores(s) == [j \in 1..Len(s) |-> s[j][1]]

\* C2 as stated: each target fragment's top_matches returned by compare_group
\* are its (up to) 3 highest-scoring accepted candidates of the whole group.
C2_BestThreeOfGroup ==
    \A j \in 1..Len(batch) :
        LET t == LastWithKey(tasks[yielded][1], batch[j][1])
            acc == Accepted(t, tasks[yielded][2], tasks[yielded][3])
        IN  Scores(batch[j][2].top_matches) = Scores(Truncate(SortDesc(acc)))

\* C2 amended: each target fragment's top_matches returned by compare_group
\* holds exactly the first accepted candidate in population-list order (none
\* if no candidate is accepted); later candidates are not retained for it.
C2_FirstAcceptedOnly ==
    /\ yielded # 0 =>
           {batch[j][1] : j \in 1..Len(batch)}
               = {fingerprint_key(tasks[yielded][1][x].fp) : x \in 1..Len(tasks[yielded][1])}
    /\ \A j \in 1..Len(batch) :
           LET t == LastWithKey(tasks[yielded][1], batch[j][1])
               acc == Accepted(t, tasks[yielded][2], tasks[yielded][3])
           IN  /\ batch[j][2].top_matches = SubSeq(acc, 1, Min(1, Len(acc)))
               /\ batch[j][2].matched = (acc # <<>>)
               /\ batch[j][2].target_sdf = t.sdf

\* a yielded batch of a group with two accepted candidates for one target,
\* the later one scoring higher
C2_Witness ==
    \E j \in 1..Len(batch) :
        LET acc == Accepted(LastWithKey(tasks[yielded][1], batch[j][1]),
                            tasks[yielded][2], tasks[yielded][3])
        IN  Len(acc) >= 2 /\ acc[2][1] > acc[1][1]

\* the result of merging the batches in task order
RECURSIVE MergeInTaskOrder(_)
MergeInTaskOrder(n) ==
    IF n = 0 THEN EmptyResults
    ELSE MergeBatch(MergeInTaskOrder(n - 1), compare_group(tasks[n]))

\* C3 as stated: the mapping returned by compare_fragments_parallel is the
\* same for every order in which imap_unordered yields the batches (so it
\* equals the one obtained in task order).
C3_MergeOrderIndependent ==
    pc = "returned" => all_results = MergeInTaskOrder(Len(tasks))

BiatomicPair(t, p) ==
    /\ t.n_atoms = TwoAtoms /\ p.n_atoms = TwoAtoms
    /\ t.formula = p.formula
    /\ Parses(t.sdf) /\ Parses(p.sdf)

\* the result compare_group returns for target t against the single candidate p
Single(t, p) == compare_group(<< <<t>>, <<p>>, MatchThreshold >>)[1][2]

\* C8: for two 2-atom fragments of the same signature, compare_group accepts
\* the candidate iff |d_t - d_c| <= 0.01, records score 1.0 - |d_t - d_c|,
\* and gives the same decision and score with target and candidate swapped.
C8_TwoAtomRule ==
    yielded # 0 =>
    \A x \in 1..Len(tasks[yielded][1]) : \A y \in 1..Len(tasks[yielded][2]) :
        LET t == tasks[yielded][1][x]
            p == tasks[yielded][2][y]
            d == IF t.sdf.dist >= p.sdf.dist THEN t.sdf.dist - p.sdf.dist
                 ELSE p.sdf.dist - t.sdf.dist
            tp == Single(t, p)
            pt == Single(p, t)
        IN  BiatomicPair(t, p) =>
                /\ tp.matched = (d <= DistTol)
                /\ tp.top_matches =
                       IF d <= DistTol THEN << <<One - d, p.sdf>> >> ELSE <<>>
                /\ pt.matched = tp.matched
                /\ Scores(pt.top_matches) = Scores(tp.top_matches)

\* the batch of the group of tb1 (1.500) has been yielded with candidate
\* pbA (1.505) accepted at score 0.995
C8_Witness ==
    \E j \in 1..Len(batch) :
        /\ batch[j][2].target_sdf = tb1.sdf
        /\ batch[j][2].matched
        /\ batch[j][2].top_matches = << <<995, pbA.sdf>> >>

-----------------------------------------------------------------------------
(* Properties of the deduplication                                         *)

Groups == {unique_by_formula[i][2] : i \in 1..Len(unique_by_formula)}

\* C4 as stated: every two distinct kept fragments of a group are below the
\* threshold in both directions, whatever the oracle.
C4_PairwiseBothDirections ==
    pc = "target_done" =>
        \A g \in Groups : \A i \in 1..Len(g) : \A j \in 1..Len(g) :
            i # j => sim[<<g[i].fp, g[j].fp>>] < DedupThreshold

\* C4 amended: for every two kept fragments of a group, X kept before Y,
\* similarity(Y, X) < tau (the direction the code evaluates); nothing is
\* guaranteed about similarity(X, Y) unless the oracle is symmetric.
C4_PairwiseLaterVsEarlier ==
    pc = "target_done" =>
        \A g \in Groups : \A i \in 1..Len(g) : \A j \in 1..Len(g) :
            i < j => sim[<<g[j].fp, g[i].fp>>] < DedupThreshold

\* a group kept several fragments and discarded at least one
C4_Witness ==
    /\ pc = "target_done"
    /\ \E i \in 1..Len(unique_by_formula) :
           /\ Len(unique_by_formula[i][2]) >= 2
           /\ Len(unique_by_formula[i][2]) < Len(grouped[i][2])

RECURSIVE Flatten(_)
Flatten(g) == IF g = <<>> THEN <<>> ELSE Head(g)[2] \o Flatten(Tail(g))

\* C5: deduplicating the output again (its groups and fragments in output
\* order) returns exactly the output.
C5_DedupIdempotent ==
    pc = "target_done" =>
        Deduplicated(GroupByFormula(Flatten(unique_by_formula)), DedupThreshold)
            = unique_by_formula

\* the first application removed a fragment and left a group of several
C5_Witness ==
    /\ pc = "target_done"
    /\ unique_by_formula # grouped
    /\ \E i \in 1..Len(unique_by_formula) : Len(unique_by_formula[i][2]) >= 2

\* C9 (process_target part): with no component of interest, process_target
\* raises nothing and returns an empty mapping.
C9_EmptyExtractionHandled ==
    (pc \notin {"target", "get_fragments"} /\ mol = <<>>) =>
        (error = "none" /\ pc = "target_done" /\ unique_by_formula = <<>>)

-----------------------------------------------------------------------------
(* Properties of the loader                                                *)

\* the wanted ids, normalized (pop_ids is the raw list until line 146 has run)
WantedIds ==
    IF pc = "load" THEN {NormalizeId(pop_ids[i]) : i \in 1..Len(pop_ids)} ELSE pop_ids

\* the index rows whose normalized entry_id and formula are both wanted
Matching == {i \in 1..Len(index) : IndexRowSelected(index[i], WantedIds, Range(formulas))}

\* number of records of pop_group that are the dataset row of label l
Returned(l) ==
    LET recs == Flatten(pop_group)
    IN  Cardinality({i \in 1..Len(recs) : recs[i].sdf = dataset[l + 1].sdf})

\* C6: when no index row matches the wanted ids and formulas (either of them
\* possibly empty), the loader raises nothing and returns an empty mapping.
C6_NoMatchReturnsEmpty ==
    Matching = {} => (error = "none" /\ (pc = "loaded" => pop_group = <<>>))

\* every index row parses and names an offset inside its chunk, an existing
\* dataset row, and that row's formula; every dataset row parses
WellFormed ==
    /\ \A i \in 1..Len(index) :
           /\ index[i].formula.parses
           /\ index[i].row_in_chunk < ChunkSize
           /\ index[i].chunk_id * ChunkSize + index[i].row_in_chunk < Len(dataset)
           /\ index[i].formula.value =
                  dataset[index[i].chunk_id * ChunkSize + index[i].row_in_chunk + 1].formula.value
    /\ \A l \in 1..Len(dataset) : dataset[l].formula.parses

\* C7: with a well-formed dataset and index, the loader returns, for each
\* matching index row (c, r), the dataset row at offset r of chunk c (r counted
\* from 0 within the chunk), and nothing else.
C7_RetrievalByChunkAndOffset ==
    (pc = "loaded" /\ WellFormed) =>
        \A l \in 0..(Len(dataset) - 1) :
            Returned(l) = Cardinality({i \in Matching :
                index[i].chunk_id * ChunkSize + index[i].row_in_chunk = l})

\* the chunks the second pass has gone through
Scanned ==
    IF pc = "pass2" THEN 0..(chunk_id - 1)
    ELSE IF pc = "loaded" /\ rows_by_chunk # <<>> THEN 0..(NumChunks(dataset) - 1)
    ELSE {}

Recorded(c) == IF c \in Keys(rows_by_chunk) THEN Get(rows_by_chunk, c) ELSE <<>>

\* C10 as stated: in a scanned chunk, every recorded row that is present in
\* the chunk (and parses) is returned, whether or not other recorded rows of
\* the chunk are missing.
C10_OnlyMissingRowsSkipped ==
    \A c \in Scanned : \A i \in 1..Len(Recorded(c)) :
        LET l == Recorded(c)[i]
        IN  (l \in Labels(dataset, c) /\ dataset[l + 1].formula.parses) => Returned(l) >= 1

\* C10 amended: a chunk with a recorded row label that it does not hold is
\* skipped whole (none of its recorded rows is returned, present or not); a
\* chunk holding all its recorded labels returns each recorded row that
\* parses; and the scan goes on through all the following chunks.
C10_ChunkSkippedWhole ==
    /\ \A c \in Scanned : \A l \in Labels(dataset, c) :
           Returned(l) =
               IF /\ \A i \in 1..Len(Recorded(c)) : Recorded(c)[i] \in Labels(dataset, c)
                  /\ dataset[l + 1].formula.parses
               THEN Cardinality({i \in 1..Len(Recorded(c)) : Recorded(c)[i] = l})
               ELSE 0
    /\ (pc = "loaded" /\ rows_by_chunk # <<>>) => chunk_id = NumChunks(dataset)

\* a chunk with a present and a missing recorded row was skipped, and a later
\* chunk returned a row
C10_Witness ==
    /\ pc = "loaded"
    /\ \E c \in Scanned :
           /\ \E i \in 1..Len(Recorded(c)) :
                  /\ Recorded(c)[i] \in Labels(dataset, c)
                  /\ dataset[Recorded(c)[i] + 1].formula.parses
           /\ \E i \in 1..Len(Recorded(c)) : Recorded(c)[i] \notin Labels(dataset, c)
           /\ \E d \in Scanned : d > c /\ \E l \in Labels(dataset, d) : Returned(l) >= 1

-----------------------------------------------------------------------------
(* Properties of the returned mapping                                      *)

\* the target groups whose signature is a key of some population dict
CoveredGroups ==
    {i \in 1..Len(target_frags) :
        \E c \in 1..Len(pop_fragments_gen) : target_frags[i][1] \in Keys(pop_fragments_gen[c])}

CoveredFrags == UNION {Range(target_frags[i][2]) : i \in CoveredGroups}

\* the fragments of the target groups whose signature no population dict has
UncoveredFrags ==
    UNION {Range(target_frags[i][2]) : i \in (1..Len(target_frags)) \ CoveredGroups}

\* C11 as stated: the keys of the returned mapping are exactly the fingerprint
\* keys of the target fragments whose signature is a key of some population
\* dict; the key of a target fragment whose signature has no population group
\* is not in the mapping at all; and an entry has matched = true iff its
\* top_matches is not empty.
C11_NoEntryForUncoveredFragment ==
    pc = "returned" =>
        /\ DOMAIN all_results = {fingerprint_key(t.fp) : t \in CoveredFrags}
        /\ \A t \in UncoveredFrags : fingerprint_key(t.fp) \notin DOMAIN all_results
        /\ \A k \in DOMAIN all_results :
               all_results[k].matched = (all_results[k].top_matches # <<>>)

\* C11 amended: the keys of the returned mapping are exactly the fingerprint
\* keys of the target fragments whose signature is a key of some population
\* dict; every entry is the entry of such a fragment, so a fragment whose
\* signature has no population group brings no entry (its key is present only
\* when a fragment of a covered signature has the same fingerprint key); and
\* an entry has matched = true iff its top_matches is not empty.
C11_ResultCoverage ==
    pc = "returned" =>
        /\ DOMAIN all_results = {fingerprint_key(t.fp) : t \in CoveredFrags}
        /\ \A k \in DOMAIN all_results :
               /\ \E t \in CoveredFrags :
                      fingerprint_key(t.fp) = k /\ all_results[k].target_sdf = t.sdf
               /\ all_results[k].matched = (all_results[k].top_matches # <<>>)

\* a run has returned entries, one of them matched, while a target group had
\* no population group of its signature
C11_Witness ==
    /\ pc = "returned"
    /\ CoveredGroups # {}
    /\ CoveredGroups # 1..Len(target_frags)
    /\ \E k \in DOMAIN all_results : all_results[k].matched

====
